---------------------------- MODULE Spec2Model ----------------------------
(***************************************************************************)
(* The quiz router of nerolusi-prisma (src/src/server/api/routers/quiz.ts) *)
(* as a state machine over the relational store it reads and writes.       *)
(*                                                                         *)
(* Time is counted in minutes: createSession adds duration * 60 * 1000     *)
(* milliseconds to the clock, i.e. `duration` units of this model's clock. *)
(* A nullable column or field is a set with at most one element: {} is     *)
(* null, {v} is the value v.  A string that the code trims or lower-cases  *)
(* is a sequence of one-character strings.                                 *)
(***************************************************************************)
EXTENDS Integers, Sequences, FiniteSets, TLC

VARIABLES
    now,          \* the clock read by `new Date()`
    sessions,     \* table QuizSession: row i has id i (autoincrement)
    userAnswers,  \* table UserAnswer: a set of rows
    resp,         \* the request handled at this instant: its input, what it found,
                  \* what it returned (none once the clock has moved on)
    lastSaved,    \* history: per upsert key, the values of the last successful saveAnswer
    reqs          \* saveAnswer requests in flight (concurrent specification only)

vars == <<now, sessions, userAnswers, resp, lastSaved, reqs>>

----------------------------------------------------------------------------
(* Bounds of the model *)

MaxTime == 3

MaxSessions == 2

MaxAnswers == 2

MaxReqs == 2

----------------------------------------------------------------------------
(* Nullable values *)

Null == {}

Some(v) == {v}

IsNull(x) == x = {}

Get(x) == CHOOSE v \in x : TRUE

----------------------------------------------------------------------------
(* The authored data: users, packages, subtests, questions, answer choices.*)
(* No handler of the quiz router writes these tables.                      *)

Users == {"u1", "u2"}

Role == [u \in Users |-> IF u = "u2" THEN "admin" ELSE "user"]

Packages == {1, 2}

\* Package.TOend, on the model's clock.
TOend == [p \in Packages |-> IF p = 1 THEN 2 ELSE 0]

Subtests == {1, 2}

\* Subtest.packageId
SubtestPackage == [s \in Subtests |-> s]

SubtestsOf(p) == {s \in Subtests : SubtestPackage[s] = p}

Jakarta == <<"J", "a", "k", "a", "r", "t", "a">>

Bandung == <<"B", "a", "n", "d", "u", "n", "g">>

\* Table Question with each row's Answer rows in the order the relation lists them.
Question ==
    [q \in {1, 2, 3} |->
        CASE q = 1 -> [id |-> 1, subtestId |-> 1, index |-> 2,
                       correctAnswerChoice |-> Some(1),
                       explanation |-> Some("because"),
                       score |-> Some(10),
                       answers |-> <<Bandung, Jakarta>>]
          [] q = 2 -> [id |-> 2, subtestId |-> 1, index |-> 1,
                       correctAnswerChoice |-> Null,
                       explanation |-> Null,
                       score |-> Some(5),
                       answers |-> <<Jakarta>>]
          [] q = 3 -> [id |-> 3, subtestId |-> 2, index |-> 1,
                       correctAnswerChoice |-> Some(2),
                       explanation |-> Some("see book"),
                       score |-> Some(3),
                       answers |-> <<Jakarta, Bandung>>]]

Questions == DOMAIN Question

----------------------------------------------------------------------------
(* Inputs the requests are drawn from *)

Durations == {1}

AnswerChoices == {Null, Some(1)}

EssayAnswers == {Null, Some(<<" ", "j", "A", "K", "a", "r", "t", "a", " ">>), Some(Bandung)}

SessionIds == 1..Len(sessions)

----------------------------------------------------------------------------
(* String functions *)

LowerChar(c) ==
    CASE c = "J" -> "j"
      [] c = "A" -> "a"
      [] c = "K" -> "k"
      [] c = "B" -> "b"
      [] OTHER -> c

\* String.prototype.toLowerCase
toLowerCase(s) == [i \in 1..Len(s) |-> LowerChar(s[i])]

RECURSIVE trimStart(_)
trimStart(s) == IF s # <<>> /\ Head(s) = " " THEN trimStart(Tail(s)) ELSE s

RECURSIVE trimEnd(_)
trimEnd(s) ==
    IF s # <<>> /\ s[Len(s)] = " " THEN trimEnd(SubSeq(s, 1, Len(s) - 1)) ELSE s

\* String.prototype.trim
trim(s) == trimEnd(trimStart(s))

----------------------------------------------------------------------------
(* Initial state: the tables the router writes are empty. *)

NoResp == [op |-> "none"]

Init ==
    /\ now = 0
    /\ sessions = <<>>
    /\ userAnswers = {}
    /\ resp = NoResp
    /\ lastSaved = <<>>
    /\ reqs = <<>>

\* The clock advances between requests.
Tick ==
    /\ now < MaxTime
    /\ now' = now + 1
    /\ resp' = NoResp
    /\ UNCHANGED <<sessions, userAnswers, lastSaved, reqs>>

\* createSession: inserts a row with endTime = now + duration.  Nothing relates
\* packageId to subtestId, and userId is an input, not the caller.
CreateSession ==
    \E userId \in Users, packageId \in Packages, subtestId \in Subtests,
       duration \in Durations :
        /\ Len(sessions) < MaxSessions
        /\ LET row == [id |-> Len(sessions) + 1, userId |-> userId,
                       packageId |-> packageId, subtestId |-> subtestId,
                       duration |-> duration, endTime |-> now + duration]
           IN /\ sessions' = Append(sessions, row)
              /\ resp' = [op |-> "createSession", val |-> row]
        /\ UNCHANGED <<now, userAnswers, lastSaved, reqs>>

\* A plausible slip: a session that has already ended keeps its endTime.
updateUnlessEnded(rows, sessionId, time) ==
    IF rows[sessionId].endTime <= time
    THEN rows
    ELSE [rows EXCEPT ![sessionId].endTime = time]

\* Lines 294-299: quizSession.update where id = sessionId, data endTime.  The
\* table after the statement.
updateEndTime(rows, sessionId, time) ==
    [rows EXCEPT ![sessionId].endTime = time]

\* submitQuiz: update where id = sessionId; endTime = now (toISOString() and
\* the parse of the DateTime column give back the same instant).  The handler
\* never reads the caller.  An id of no row makes the update throw.
SubmitQuiz ==
    \E actor \in Users, sessionId \in 1..(Len(sessions) + 1) :
        /\ IF sessionId \in SessionIds
           THEN /\ sessions' = updateEndTime(sessions, sessionId, now)
                /\ resp' = [op |-> "submitQuiz", actor |-> actor,
                            sessionId |-> sessionId,
                            kind |-> "ok", val |-> sessions'[sessionId]]
           ELSE /\ sessions' = sessions
                /\ resp' = [op |-> "submitQuiz", actor |-> actor,
                            sessionId |-> sessionId, kind |-> "error"]
        /\ UNCHANGED <<now, userAnswers, lastSaved, reqs>>

\* getSession: findFirst on (userId, subtestId).  No orderBy: any matching row
\* may be the first.
GetSession ==
    \E userId \in Users, subtestId \in Subtests :
        LET matches == {i \in SessionIds : /\ sessions[i].userId = userId
                                           /\ sessions[i].subtestId = subtestId}
        IN /\ \/ /\ matches = {}
                 /\ resp' = [op |-> "getSession", kind |-> "null"]
              \/ \E i \in matches :
                    resp' = [op |-> "getSession", kind |-> "row", val |-> sessions[i]]
           /\ UNCHANGED <<now, sessions, userAnswers, lastSaved, reqs>>

----------------------------------------------------------------------------
(* Question delivery *)

QuestionsOf(subtestId) == {q \in Questions : Question[q].subtestId = subtestId}

\* findMany({where: {subtestId}, orderBy: {index: "asc"}, include: {answers}})
findManyQuestions(subtestId) ==
    LET S == QuestionsOf(subtestId)
        order == CHOOSE f \in [1..Cardinality(S) -> S] :
                    /\ \A i, j \in 1..Cardinality(S) : i # j => f[i] # f[j]
                    /\ \A i, j \in 1..Cardinality(S) :
                          i < j => Question[f[i]].index <= Question[f[j]].index
    IN [i \in 1..Cardinality(S) |-> Question[order[i]]]

\* The map of lines 198-203: the three fields are overwritten, the rest is spread.
hideKey(question) ==
    [question EXCEPT !.correctAnswerChoice = Null,
                     !.explanation = Null,
                     !.score = Null]

\* Lines 186-213, for the session row found (0: none found).
deliverQuestions(found, subtestId) ==
    IF found = 0
    THEN [kind |-> "null"]
    ELSE IF TOend[sessions[found].packageId] > now
    THEN [kind |-> "list",
          val |-> [i \in DOMAIN findManyQuestions(subtestId) |->
                      hideKey(findManyQuestions(subtestId)[i])]]
    ELSE IF TOend[sessions[found].packageId] < now
    THEN [kind |-> "list", val |-> findManyQuestions(subtestId)]
    ELSE [kind |-> "undefined"]

\* getQuestionsBySubtest: the session is looked up for the caller, or, for an
\* administrator, for input.userId when given.  findFirst has no orderBy.
GetQuestionsBySubtest ==
    \E actor \in Users, subtestId \in Subtests, inUserId \in {Null} \cup {Some(u) : u \in Users} :
        LET userId == IF Role[actor] = "admin"
                      THEN (IF IsNull(inUserId) THEN actor ELSE Get(inUserId))
                      ELSE actor
            matches == {i \in SessionIds : /\ sessions[i].subtestId = subtestId
                                           /\ sessions[i].userId = userId}
        IN /\ \E found \in (IF matches = {} THEN {0} ELSE matches) :
                resp' = [op |-> "getQuestionsBySubtest",
                         subtestId |-> subtestId, userId |-> userId,
                         found |-> found]
                        @@ deliverQuestions(found, subtestId)
           /\ UNCHANGED <<now, sessions, userAnswers, lastSaved, reqs>>

----------------------------------------------------------------------------
(* Session details *)

\* A plausible slip: the administrator's exemption is forgotten.
maySeeOwnerOnly(session, actor) ==
    session.userId = actor

\* Lines 230-234: who may see the session.
maySee(session, actor) ==
    ~ (session.userId # actor /\ Role[actor] # "admin")

\* include: subtest, package.TOend, userAnswers where quizSessionId = sessionId.
sessionWithIncludes(sessionId) ==
    [session |-> sessions[sessionId],
     subtest |-> [id |-> sessions[sessionId].subtestId,
                  packageId |-> SubtestPackage[sessions[sessionId].subtestId]],
     package |-> [TOend |-> TOend[sessions[sessionId].packageId]],
     userAnswers |-> {a \in userAnswers : a.quizSessionId = sessionId}]

GetSessionDetails ==
    \E actor \in Users, sessionId \in 1..(Len(sessions) + 1) :
        /\ IF sessionId \notin SessionIds
           THEN resp' = [op |-> "getSessionDetails", actor |-> actor,
                         sessionId |-> sessionId, kind |-> "null"]
           ELSE IF ~ maySee(sessions[sessionId], actor)
           THEN resp' = [op |-> "getSessionDetails", actor |-> actor,
                         sessionId |-> sessionId, kind |-> "null"]
           ELSE resp' = [op |-> "getSessionDetails", actor |-> actor,
                         sessionId |-> sessionId, kind |-> "row",
                         val |-> sessionWithIncludes(sessionId)]
        /\ UNCHANGED <<now, sessions, userAnswers, lastSaved, reqs>>

----------------------------------------------------------------------------
(* Answer submission *)

KeyOf(row) == <<row.userId, row.quizSessionId, row.questionId>>

\* A plausible slip: the test compares with undefined, which a nullable
\* field that passed validation never is, so nothing is refused.
rejectsNothing(input) == FALSE

\* Line 262: the request is refused when neither value is given.
rejects(input) == IsNull(input.answerChoice) /\ IsNull(input.essayAnswer)

\* A plausible slip: create instead of upsert.
alwaysInserts(store, input) == store \cup {input}

\* userAnswer.upsert on the unique key userId_quizSessionId_questionId: a row
\* with the key gets `update` (answerChoice, essayAnswer); otherwise `create`
\* is inserted.  The store after the statement.
upsert(store, input) ==
    IF \E a \in store : KeyOf(a) = KeyOf(input)
    THEN {IF KeyOf(a) = KeyOf(input)
          THEN [a EXCEPT !.answerChoice = input.answerChoice,
                         !.essayAnswer = input.essayAnswer]
          ELSE a : a \in store}
    ELSE store \cup {input}

SaveAnswerInputs ==
    [answerChoice : AnswerChoices, essayAnswer : EssayAnswers,
     questionId : Questions, userId : Users, packageId : Packages,
     quizSessionId : SessionIds]

\* saveAnswer.  The rows referenced (question, user, package, session) exist.
SaveAnswer ==
    \E input \in SaveAnswerInputs :
        /\ \/ \E a \in userAnswers : KeyOf(a) = KeyOf(input)
           \/ Cardinality(userAnswers) < MaxAnswers
        /\ IF rejects(input)
           THEN /\ resp' = [op |-> "saveAnswer", kind |-> "error",
                            input |-> [answerChoice |-> input.answerChoice,
                                       essayAnswer |-> input.essayAnswer]]
                /\ UNCHANGED <<userAnswers, lastSaved>>
           ELSE /\ userAnswers' = upsert(userAnswers, input)
                /\ resp' = [op |-> "saveAnswer", kind |-> "ok", input |-> input,
                            created |-> ~ \E a \in userAnswers : KeyOf(a) = KeyOf(input),
                            val |-> CHOOSE a \in userAnswers' : KeyOf(a) = KeyOf(input)]
                /\ lastSaved' = (KeyOf(input) :> <<input.answerChoice, input.essayAnswer>>)
                                @@ lastSaved
        /\ UNCHANGED <<now, sessions, reqs>>

----------------------------------------------------------------------------
(* Scoring *)

\* A plausible slip: the texts are compared as they are, without trim() and
\* toLowerCase().
exactEssayMatch(answer) ==
    /\ Question[answer.questionId].answers # <<>>
    /\ Get(answer.essayAnswer) = Question[answer.questionId].answers[1]

\* Lines 111-113.  answers[0]?.content... is undefined for a question without
\* answer choices, and no string equals undefined.
isEssayCorrect(answer) ==
    LET question == Question[answer.questionId]
    IN /\ question.answers # <<>>
       /\ toLowerCase(trim(Get(answer.essayAnswer)))
            = toLowerCase(trim(question.answers[1]))

\* A plausible slip: !== for === at line 106.
scoresWrongChoice(answer) ==
    IF ~ IsNull(Question[answer.questionId].correctAnswerChoice)
    THEN (IF answer.answerChoice # Question[answer.questionId].correctAnswerChoice
          THEN Get(Question[answer.questionId].score) ELSE 0)
    ELSE 0

\* The reducer of lines 102-117, for one user answer: what it adds to the total.
answerScore(answer) ==
    LET question == Question[answer.questionId]
    IN IF ~ IsNull(question.correctAnswerChoice)
       THEN (IF answer.answerChoice = question.correctAnswerChoice
             THEN Get(question.score) ELSE 0)
       ELSE IF ~ IsNull(answer.essayAnswer)
       THEN (IF isEssayCorrect(answer) THEN Get(question.score) ELSE 0)
       ELSE 0

RECURSIVE sumScores(_)
sumScores(S) ==
    IF S = {} THEN 0
    ELSE LET a == CHOOSE x \in S : TRUE
         IN answerScore(a) + sumScores(S \ {a})

\* quizSession.userAnswers as selected at lines 51-54: the rows of the session
\* whose packageId is the package asked for.
selectedAnswers(store, sessionId, packageId) ==
    {a \in store : a.quizSessionId = sessionId /\ a.packageId = packageId}

\* Lines 84-126, for one subtest and the session row found for it (0: none).
subtestWithScore(subtestId, found, packageId) ==
    IF found = 0
    THEN [id |-> subtestId, found |-> found, quizSession |-> Null, score |-> Null]
    ELSE IF TOend[sessions[found].packageId] > now
    THEN [id |-> subtestId, found |-> found,
          quizSession |-> Some(sessions[found].endTime), score |-> Null]
    ELSE [id |-> subtestId, found |-> found,
          quizSession |-> Some(sessions[found].endTime),
          score |-> Some(sumScores(selectedAnswers(userAnswers, found, packageId)))]

RECURSIVE totalOf(_, _)
totalOf(subtests, S) ==
    IF S = {} THEN 0
    ELSE LET t == CHOOSE x \in S : TRUE
         IN (IF IsNull(subtests[t].score) THEN 0 ELSE Get(subtests[t].score))
            + totalOf(subtests, S \ {t})

\* getPackageWithSubtest.  subtest.quizSession[0] is the first of the caller's
\* sessions on the subtest, in an order the query does not fix.
GetPackageWithSubtest ==
    \E actor \in Users, id \in Packages \cup {0} :
        /\ IF id \notin Packages
           THEN resp' = [op |-> "getPackageWithSubtest",
                         actor |-> actor, id |-> id, kind |-> "error"]
           ELSE \E pick \in [SubtestsOf(id) -> 0..Len(sessions)] :
                  /\ \A t \in SubtestsOf(id) :
                        LET matches == {i \in SessionIds :
                                           /\ sessions[i].subtestId = t
                                           /\ sessions[i].userId = actor}
                        IN IF matches = {} THEN pick[t] = 0 ELSE pick[t] \in matches
                  /\ LET subtests == [t \in SubtestsOf(id) |->
                                         subtestWithScore(t, pick[t], id)]
                     IN resp' = [op |-> "getPackageWithSubtest",
                                 actor |-> actor, id |-> id, kind |-> "ok",
                                 TOend |-> TOend[id],
                                 subtests |-> subtests,
                                 totalScore |-> totalOf(subtests, SubtestsOf(id))]
        /\ UNCHANGED <<now, sessions, userAnswers, lastSaved, reqs>>

----------------------------------------------------------------------------
(* Specifications *)

\* Session lifecycle and question delivery, from the empty store.
Next ==
    \/ Tick
    \/ CreateSession
    \/ SubmitQuiz
    \/ GetSession
    \/ GetQuestionsBySubtest

Spec == Init /\ [][Next]_vars

\* A session row as createSession inserts it at time 0.
createdAtStart(id, userId, packageId, subtestId) ==
    [id |-> id, userId |-> userId, packageId |-> packageId,
     subtestId |-> subtestId, duration |-> 1, endTime |-> 1]

\* Answer submission and session details, from a store in which createSession
\* has run twice: one session of the plain user, one of the administrator.
InitAnswers ==
    /\ now = 0
    /\ sessions = <<createdAtStart(1, "u1", 1, 1), createdAtStart(2, "u2", 2, 2)>>
    /\ userAnswers = {}
    /\ resp = NoResp
    /\ lastSaved = <<>>
    /\ reqs = <<>>

NextAnswers ==
    \/ SaveAnswer
    \/ GetSessionDetails

SpecAnswers == InitAnswers /\ [][NextAnswers]_vars

\* Scoring, from a store in which createSession has run once for the plain user
\* on subtest 1, with the subtest's package or with the other one.
InitScore ==
    /\ now = 0
    /\ \E p \in Packages : sessions = <<createdAtStart(1, "u1", p, 1)>>
    /\ userAnswers = {}
    /\ resp = NoResp
    /\ lastSaved = <<>>
    /\ reqs = <<>>

NextScore ==
    \/ Tick
    \/ SaveAnswer
    \/ GetPackageWithSubtest

SpecScore == InitScore /\ [][NextScore]_vars

\* A UserAnswer row as saveAnswer creates it.
savedAtStart(userId, quizSessionId, questionId, packageId, answerChoice, essayAnswer) ==
    [answerChoice |-> answerChoice, essayAnswer |-> essayAnswer,
     questionId |-> questionId, userId |-> userId, packageId |-> packageId,
     quizSessionId |-> quizSessionId]

\* Early submission next to answer submission, from a store in which
\* createSession has run twice and each user has saved one answer in their
\* session.
InitSubmit ==
    /\ now = 0
    /\ sessions = <<createdAtStart(1, "u1", 1, 1), createdAtStart(2, "u2", 2, 2)>>
    /\ userAnswers = {savedAtStart("u1", 1, 1, 1, Some(1), Null),
                      savedAtStart("u2", 2, 3, 2, Null, Some(Bandung))}
    /\ resp = NoResp
    /\ lastSaved = (<<"u1", 1, 1>> :> <<Some(1), Null>>)
                   @@ (<<"u2", 2, 3>> :> <<Null, Some(Bandung)>>)
    /\ reqs = <<>>

NextSubmit ==
    \/ Tick
    \/ SaveAnswer
    \/ SubmitQuiz

SpecSubmit == InitSubmit /\ [][NextSubmit]_vars

----------------------------------------------------------------------------
(* Concurrent saveAnswer requests.  A handler runs without interruption up to  *)
(* its await (line 266): the input is validated and the upsert is sent.  The   *)
(* database then executes the upserts it was sent in any order, each as one    *)
(* statement (INSERT ... ON CONFLICT (userId, quizSessionId, questionId) DO    *)
(* UPDATE), and the handler returns the row.                                   *)

\* Lines 252-266 of one more request: refused, or its upsert is sent.
ReceiveSaveAnswer ==
    \E input \in SaveAnswerInputs :
        /\ Len(reqs) < MaxReqs
        /\ reqs' = Append(reqs, [input |-> input,
                                 pc |-> IF rejects(input) THEN "error" ELSE "sent",
                                 wrote |-> 0])
        /\ UNCHANGED <<now, sessions, userAnswers, resp, lastSaved>>

\* The number of upserts executed so far.
Executed == Cardinality({i \in DOMAIN reqs : reqs[i].pc = "ok"})

\* The database executes the upsert of request i; lines 266-288 return its row.
ExecuteUpsert ==
    \E i \in DOMAIN reqs :
        /\ reqs[i].pc = "sent"
        /\ \/ \E a \in userAnswers : KeyOf(a) = KeyOf(reqs[i].input)
           \/ Cardinality(userAnswers) < MaxAnswers
        /\ userAnswers' = upsert(userAnswers, reqs[i].input)
        /\ lastSaved' = (KeyOf(reqs[i].input) :>
                            <<reqs[i].input.answerChoice, reqs[i].input.essayAnswer>>)
                        @@ lastSaved
        /\ reqs' = [reqs EXCEPT ![i].pc = "ok", ![i].wrote = Executed + 1]
        /\ UNCHANGED <<now, sessions, resp>>

NextConcurrent ==
    \/ ReceiveSaveAnswer
    \/ ExecuteUpsert

\* From a store in which createSession has run once.
InitConcurrent ==
    /\ now = 0
    /\ sessions = <<createdAtStart(1, "u1", 1, 1)>>
    /\ userAnswers = {}
    /\ resp = NoResp
    /\ lastSaved = <<>>
    /\ reqs = <<>>

SpecConcurrent == InitConcurrent /\ [][NextConcurrent]_vars

----------------------------------------------------------------------------
(* Question delivery: C1, C5 (specification Spec) *)

\* The response at hand is getQuestionsBySubtest's, for a user who has a
\* session on the subtest.
DeliveredWithSession ==
    /\ resp.op = "getQuestionsBySubtest"
    /\ resp.found # 0

\* The window of the package that owns the subtest.
OwningPackageOpen(subtestId) == TOend[SubtestPackage[subtestId]] > now

OwningPackageClosed(subtestId) == TOend[SubtestPackage[subtestId]] < now

KeyHidden(question) ==
    /\ IsNull(question.correctAnswerChoice)
    /\ IsNull(question.explanation)
    /\ IsNull(question.score)

\* C1: while the window of the subtest's owning package is open, every question
\* getQuestionsBySubtest returns to a user with a session on the subtest has
\* correctAnswerChoice, explanation and score null, whatever ran before.
C1_KeyHiddenWhileOpen ==
    (DeliveredWithSession /\ OwningPackageOpen(resp.subtestId) /\ resp.kind = "list")
        => \A i \in DOMAIN resp.val : KeyHidden(resp.val[i])

\* What the code does guarantee: the key is hidden while the window of the
\* package recorded on the session row that was found is open.
KeyHiddenWhileSessionPackageOpen ==
    (DeliveredWithSession /\ TOend[sessions[resp.found].packageId] > now)
        => /\ resp.kind = "list"
           /\ \A i \in DOMAIN resp.val : KeyHidden(resp.val[i])

\* All questions of the subtest, each once, by ascending index.
ListsSubtestByIndex(list, subtestId) ==
    /\ Len(list) = Cardinality(QuestionsOf(subtestId))
    /\ {list[i].id : i \in DOMAIN list} = QuestionsOf(subtestId)
    /\ \A i, j \in DOMAIN list : i < j => list[i].index < list[j].index

\* C5: once the window of the subtest's owning package is closed (TOend has
\* passed), getQuestionsBySubtest returns to a user with a session on the
\* subtest all its questions by ascending index, with their answer choices and
\* with the stored correctAnswerChoice, explanation and score.
C5_KeyShownOnceClosed ==
    (DeliveredWithSession /\ OwningPackageClosed(resp.subtestId))
        => /\ resp.kind = "list"
           /\ ListsSubtestByIndex(resp.val, resp.subtestId)
           /\ \A i \in DOMAIN resp.val : resp.val[i] = Question[resp.val[i].id]

\* What the code does guarantee: the stored rows are returned once the window
\* of the package recorded on the session row that was found is closed.
KeyShownOnceSessionPackageClosed ==
    (DeliveredWithSession /\ TOend[sessions[resp.found].packageId] < now)
        => /\ resp.kind = "list"
           /\ ListsSubtestByIndex(resp.val, resp.subtestId)
           /\ \A i \in DOMAIN resp.val : resp.val[i] = Question[resp.val[i].id]

----------------------------------------------------------------------------
(* Session details: C2 (specification SpecAnswers) *)

\* C2: getSessionDetails returns null when the session does not exist or the
\* requester is neither its owner nor an administrator; otherwise it returns
\* the session with its subtest, its package's TOend and exactly the user
\* answers whose quizSessionId is the session's id.
C2_DetailsForOwnerOrAdmin ==
    resp.op = "getSessionDetails" =>
        LET id == resp.sessionId
            allowed == /\ id \in SessionIds
                       /\ \/ sessions[id].userId = resp.actor
                          \/ Role[resp.actor] = "admin"
        IN /\ resp.kind = "null" <=> ~ allowed
           /\ allowed =>
                /\ resp.kind = "row"
                /\ resp.val.session = sessions[id]
                /\ resp.val.subtest.id = sessions[id].subtestId
                /\ resp.val.package.TOend = TOend[sessions[id].packageId]
                /\ \A a \in userAnswers :
                      a \in resp.val.userAnswers <=> a.quizSessionId = id
                /\ resp.val.userAnswers \subseteq userAnswers

\* An administrator who is not the owner gets the session with its answers,
\* while another session has answers of its own.
C2_AdminSeesOthersSession ==
    /\ resp.op = "getSessionDetails"
    /\ resp.kind = "row"
    /\ resp.val.session.userId # resp.actor
    /\ resp.val.userAnswers # {}
    /\ \E a \in userAnswers : a.quizSessionId # resp.sessionId

\* A plain user asking for another user's session: the refusal.
DetailsRefused ==
    /\ resp.op = "getSessionDetails"
    /\ resp.kind = "null"
    /\ resp.sessionId \in SessionIds
    /\ userAnswers # {}

----------------------------------------------------------------------------
(* Answer submission: C3, C4, C9 (specification SpecAnswers) *)

Keys == {KeyOf(a) : a \in userAnswers}

\* At most one row per (userId, quizSessionId, questionId).
OneRowPerKey ==
    \A a, b \in userAnswers : KeyOf(a) = KeyOf(b) => a = b

\* The row of a key holds the values of the last successful saveAnswer for it.
HoldsLastSaved ==
    /\ DOMAIN lastSaved = Keys
    /\ \A a \in userAnswers :
          lastSaved[KeyOf(a)] = <<a.answerChoice, a.essayAnswer>>

\* A successful saveAnswer whose input is that of the successful saveAnswer
\* just before it leaves the table as it was.
RepeatChangesNothing ==
    ( /\ resp.op = "saveAnswer" /\ resp.kind = "ok"
      /\ resp'.op = "saveAnswer" /\ resp'.kind = "ok"
      /\ resp'.input = resp.input )
        => userAnswers' = userAnswers

\* C3: after any sequence of saveAnswer calls there is at most one row per key,
\* the row holds the answerChoice and essayAnswer of the most recent successful
\* saveAnswer for the key, and repeating a call with identical input leaves the
\* store as it was after the first call.
C3_UpsertPerKey ==
    /\ [](OneRowPerKey /\ HoldsLastSaved)
    /\ [][RepeatChangesNothing]_vars

\* A second saveAnswer for a key overwrote the row's values, beside a row of
\* another key.
C3_RowOverwritten ==
    /\ resp.op = "saveAnswer"
    /\ resp.kind = "ok"
    /\ ~ resp.created
    /\ Cardinality(userAnswers) = 2
    /\ resp.val.packageId # resp.input.packageId

\* C4: saveAnswer with answerChoice = null and essayAnswer = null ends in an
\* error and leaves the table unchanged: no row is created and the row of the
\* key, if any, keeps its values.
C4_BothNullRefused ==
    [][ ( /\ resp' # resp
          /\ resp'.op = "saveAnswer"
          /\ IsNull(resp'.input.answerChoice)
          /\ IsNull(resp'.input.essayAnswer) )
            => /\ resp'.kind = "error"
               /\ userAnswers' = userAnswers ]_vars

\* A refused saveAnswer, with rows stored.
C4_RefusedWithRowsStored ==
    /\ resp.op = "saveAnswer"
    /\ resp.kind = "error"
    /\ userAnswers # {}

RowCreated ==
    /\ resp.op = "saveAnswer"
    /\ resp.kind = "ok"
    /\ resp.created

\* C9 as claimed: every row saveAnswer creates has exactly one of answerChoice
\* and essayAnswer non-null.
C9_ExactlyOneAtCreation ==
    RowCreated =>
        /\ resp.val \in userAnswers
        /\ IsNull(resp.val.answerChoice) # IsNull(resp.val.essayAnswer)

\* C9 as amended: every row saveAnswer creates has at least one of answerChoice
\* and essayAnswer non-null; both may be non-null.
C9_AtLeastOneAtCreation ==
    RowCreated =>
        /\ resp.val \in userAnswers
        /\ ~ (IsNull(resp.val.answerChoice) /\ IsNull(resp.val.essayAnswer))

\* A row created with a choice and an essay text at once.
C9_CreatedWithBoth ==
    /\ RowCreated
    /\ ~ IsNull(resp.val.answerChoice)
    /\ ~ IsNull(resp.val.essayAnswer)

----------------------------------------------------------------------------
(* Scoring: C6, C7, C8 (specification SpecScore) *)

Scored == resp.op = "getPackageWithSubtest" /\ resp.kind = "ok"

\* The caller's sessions on a subtest.
SessionsOn(subtestId, userId) ==
    {i \in SessionIds : /\ sessions[i].subtestId = subtestId
                        /\ sessions[i].userId = userId}

\* C6: for each subtest of the package asked for, getPackageWithSubtest reports
\* quizSession = null and score = null when the caller has no session on it,
\* and quizSession = the session's endTime and score = null when the caller has
\* a session and the package's TOend is still in the future; a score is
\* reported only when a session exists and the package's window has closed.
C6_NoScoreBeforeClose ==
    Scored =>
        \A t \in SubtestsOf(resp.id) :
            LET mine == SessionsOn(t, resp.actor)
                r == resp.subtests[t]
            IN /\ mine = {} => (IsNull(r.quizSession) /\ IsNull(r.score))
               /\ (mine # {} /\ TOend[resp.id] > now)
                    => /\ \E i \in mine : r.quizSession = Some(sessions[i].endTime)
                       /\ IsNull(r.score)
               /\ ~ IsNull(r.score) => (mine # {} /\ ~ (TOend[resp.id] > now))

\* What the code does guarantee: the same, with the window of the package
\* recorded on the session row that was found.
NoScoreBeforeSessionPackageCloses ==
    Scored =>
        \A t \in SubtestsOf(resp.id) :
            LET mine == SessionsOn(t, resp.actor)
                r == resp.subtests[t]
            IN /\ mine = {} <=> r.found = 0
               /\ r.found # 0 => r.found \in mine
               /\ mine = {} => (IsNull(r.quizSession) /\ IsNull(r.score))
               /\ mine # {} => r.quizSession = Some(sessions[r.found].endTime)
               /\ IsNull(r.score) <=>
                    (mine = {} \/ TOend[sessions[r.found].packageId] > now)

\* The essay text matches the first listed answer choice, both trimmed and
\* lower-cased.
EssayMatchesFirstChoice(a) ==
    /\ ~ IsNull(a.essayAnswer)
    /\ Len(Question[a.questionId].answers) >= 1
    /\ toLowerCase(trim(Get(a.essayAnswer)))
         = toLowerCase(trim(Question[a.questionId].answers[1]))

ChoiceIsCorrect(a) ==
    /\ ~ IsNull(Question[a.questionId].correctAnswerChoice)
    /\ a.answerChoice = Question[a.questionId].correctAnswerChoice

\* The contribution of one user answer as C7 states it.
ClaimedPoints(a) ==
    IF ChoiceIsCorrect(a) THEN Get(Question[a.questionId].score)
    ELSE IF EssayMatchesFirstChoice(a) THEN Get(Question[a.questionId].score)
    ELSE 0

\* The contribution of one user answer as amended: the essay text counts only
\* for a question without a correctAnswerChoice.
AmendedPoints(a) ==
    IF ChoiceIsCorrect(a) THEN Get(Question[a.questionId].score)
    ELSE IF IsNull(Question[a.questionId].correctAnswerChoice)
            /\ EssayMatchesFirstChoice(a)
    THEN Get(Question[a.questionId].score)
    ELSE 0

RECURSIVE SumOver(_, _)
SumOver(points(_), S) ==
    IF S = {} THEN 0
    ELSE LET a == CHOOSE x \in S : TRUE
         IN points(a) + SumOver(points, S \ {a})

\* C7 as claimed: for a subtest with a session and a closed window, the score
\* reported is the sum of ClaimedPoints over every stored user answer of that
\* session.
C7_ScoreSumsEveryAnswer ==
    Scored =>
        \A t \in SubtestsOf(resp.id) :
            LET r == resp.subtests[t]
            IN (r.found # 0 /\ ~ (TOend[resp.id] > now))
                  => r.score = Some(SumOver(ClaimedPoints,
                                     {a \in userAnswers : a.quizSessionId = r.found}))

\* C7 as amended: for a subtest with a session whose package's TOend is not
\* later than now, the score reported is the sum of AmendedPoints over the
\* stored user answers of that session whose packageId is the package asked for.
C7_ScoreSumsSelectedAnswers ==
    Scored =>
        \A t \in SubtestsOf(resp.id) :
            LET r == resp.subtests[t]
            IN (r.found # 0 /\ ~ (TOend[sessions[r.found].packageId] > now))
                  => r.score = Some(SumOver(AmendedPoints,
                                     {a \in userAnswers : /\ a.quizSessionId = r.found
                                                          /\ a.packageId = resp.id}))

\* The scenario of the specification: a correct choice worth 10 and a matching
\* essay text worth 5 give the subtest score 15.
C7_ScoreFifteen ==
    /\ Scored
    /\ resp.id = 1
    /\ resp.subtests[1].found # 0
    /\ sessions[resp.subtests[1].found].packageId = 1
    /\ resp.subtests[1].score = Some(15)
    /\ resp.totalScore = 15
    /\ Cardinality(userAnswers) = 2

\* The step is a successful saveAnswer that puts the question's
\* correctAnswerChoice in the stored row `a` and changes nothing else.
CorrectsChoice(a) ==
    /\ resp' # resp
    /\ resp'.op = "saveAnswer"
    /\ resp'.kind = "ok"
    /\ KeyOf(resp'.input) = KeyOf(a)
    /\ resp'.input.answerChoice = Question[a.questionId].correctAnswerChoice
    /\ resp'.input.essayAnswer = a.essayAnswer

\* C8: replacing a stored answerChoice by the question's correctAnswerChoice
\* through saveAnswer, all else unchanged, never lowers what the answer adds to
\* the score getPackageWithSubtest computes for its session.
C8_CorrectingNeverLowers ==
    [][ \A a \in userAnswers :
          CorrectsChoice(a) =>
            LET b == [a EXCEPT !.answerChoice =
                                  Question[a.questionId].correctAnswerChoice]
            IN /\ userAnswers' = (userAnswers \ {a}) \cup {b}
               /\ answerScore(b) >= answerScore(a)
               /\ \A p \in Packages :
                     sumScores(selectedAnswers(userAnswers', a.quizSessionId, p))
                       - sumScores(selectedAnswers(userAnswers, a.quizSessionId, p))
                     = IF p = a.packageId
                       THEN answerScore(b) - answerScore(a) ELSE 0 ]_vars

\* A stored answer of a scored session was just overwritten with the correct
\* choice of its question.
C8_ChoiceCorrected ==
    /\ resp.op = "saveAnswer"
    /\ resp.kind = "ok"
    /\ ~ resp.created
    /\ resp.val.answerChoice = Question[resp.val.questionId].correctAnswerChoice
    /\ ~ IsNull(resp.val.answerChoice)
    /\ resp.val.packageId = sessions[resp.val.quizSessionId].packageId
    /\ TOend[resp.val.packageId] < now

----------------------------------------------------------------------------
(* Concurrent submissions: C10 (specification SpecConcurrent) *)

\* The requests for a key that passed validation.
RequestsFor(k) ==
    {i \in DOMAIN reqs : KeyOf(reqs[i].input) = k /\ reqs[i].pc # "error"}

\* C10: when the saveAnswer requests for one key run concurrently, in any
\* interleaving, then once they have all returned each has succeeded, the
\* table holds exactly one row for the key, and the row holds the values of
\* the request whose upsert was executed last.
C10_LastWriterWins ==
    \A k \in {KeyOf(reqs[i].input) : i \in DOMAIN reqs} :
        (RequestsFor(k) # {} /\ \A i \in RequestsFor(k) : reqs[i].pc # "sent")
            => /\ \A i \in RequestsFor(k) : reqs[i].pc = "ok"
               /\ Cardinality({a \in userAnswers : KeyOf(a) = k}) = 1
               /\ \E i \in RequestsFor(k) :
                     /\ \A j \in RequestsFor(k) : reqs[j].wrote <= reqs[i].wrote
                     /\ \A a \in userAnswers :
                           KeyOf(a) = k =>
                               /\ a.answerChoice = reqs[i].input.answerChoice
                               /\ a.essayAnswer = reqs[i].input.essayAnswer

\* Two requests for one key with different values were in flight together and
\* the one received first was executed last: the other's write is lost.
C10_EarlierRequestWroteLast ==
    /\ Len(reqs) >= 2
    /\ KeyOf(reqs[1].input) = KeyOf(reqs[2].input)
    /\ reqs[1].pc = "ok"
    /\ reqs[2].pc = "ok"
    /\ reqs[1].wrote > reqs[2].wrote
    /\ reqs[1].input.answerChoice # reqs[2].input.answerChoice

----------------------------------------------------------------------------
(* Early submission: C11 (specification SpecSubmit) *)

\* The step is a submitQuiz call for a session that exists.
SubmitsExisting ==
    /\ resp'.op = "submitQuiz"
    /\ resp'.sessionId \in SessionIds

\* C11: submitQuiz on an existing session always sets that session's endTime
\* to the current time, whoever the caller is and whatever the endTime was
\* before (passed, or set by an earlier submitQuiz); it changes nothing else of
\* that session, no other session and no UserAnswer row.
C11_SubmitSetsEndTimeOnly ==
    [][ SubmitsExisting =>
          LET sid == resp'.sessionId
          IN /\ resp'.kind = "ok"
             /\ now' = now
             /\ sessions'[sid] = [sessions[sid] EXCEPT !.endTime = now]
             /\ resp'.val = sessions'[sid]
             /\ DOMAIN sessions' = DOMAIN sessions
             /\ \A i \in SessionIds : i # sid => sessions'[i] = sessions[i]
             /\ userAnswers' = userAnswers ]_vars

\* A caller who does not own the session has submitted it after its deadline
\* (endTime 1 at creation) had passed, answers being stored; the other session
\* has since been submitted too.
C11_SubmittedByOtherAfterDeadline ==
    /\ resp.op = "submitQuiz"
    /\ resp.kind = "ok"
    /\ resp.sessionId = 2
    /\ resp.actor # sessions[2].userId
    /\ Role[resp.actor] # "admin"
    /\ now = 3
    /\ sessions[2].endTime = 3
    /\ sessions[1].endTime = 2
    /\ \E a \in userAnswers : a.quizSessionId = 2

=============================================================================
